---- MODULE Spec2Model ----
(***************************************************************************)
(* Model of the document analysis pipeline of src/app.py: chunk_text,      *)
(* analyze_chunk (Mistral -> OpenAI -> keyword heuristic),                 *)
(* find_page_number and analyze_document (collection, remediation,         *)
(* deduplication, ordering).                                               *)
(*                                                                         *)
(* Strings are sequences of one-character strings, so that slicing,        *)
(* substring search, split, strip and lower are computed as Python         *)
(* computes them.                                                          *)
(***************************************************************************)
EXTENDS Integers, Sequences, FiniteSets, TLC

(***************************************************************************)
(* Python string primitives                                                *)
(***************************************************************************)

\* [c] * n
Rep(c, n) == [k \in 1..n |-> c]

MinOf(S) == CHOOSE x \in S : \A y \in S : x <= y

\* s[:n]
Slice(s, n) == IF Len(s) > n THEN SubSeq(s, 1, n) ELSE s

\* sub in s
Contains(s, sub) ==
    \E p \in 1..(Len(s) - Len(sub) + 1) :
        \A q \in 1..Len(sub) : s[p + q - 1] = sub[q]

Whitespace == {" ", "\n", "\t"}

\* s.strip()
Strip(s) ==
    IF \A p \in 1..Len(s) : s[p] \in Whitespace THEN <<>>
    ELSE LET first == CHOOSE p \in 1..Len(s) :
                          s[p] \notin Whitespace /\ \A q \in 1..(p - 1) : s[q] \in Whitespace
             last == CHOOSE p \in 1..Len(s) :
                          s[p] \notin Whitespace /\ \A q \in (p + 1)..Len(s) : s[q] \in Whitespace
         IN  SubSeq(s, first, last)

\* s.split(sep) for a one-character separator
RECURSIVE SplitFrom(_, _, _)
SplitFrom(s, sep, start) ==
    IF \A p \in start..Len(s) : s[p] # sep THEN <<SubSeq(s, start, Len(s))>>
    ELSE LET hit == CHOOSE p \in start..Len(s) :
                        s[p] = sep /\ \A q \in start..(p - 1) : s[q] # sep
         IN  <<SubSeq(s, start, hit - 1)>> \o SplitFrom(s, sep, hit + 1)

Split(s, sep) == SplitFrom(s, sep, 1)

UpperCase == <<"A","B","C","D","E","F","G","H","I","J","K","L","M",
               "N","O","P","Q","R","S","T","U","V","W","X","Y","Z">>
LowerCase == <<"a","b","c","d","e","f","g","h","i","j","k","l","m",
               "n","o","p","q","r","s","t","u","v","w","x","y","z">>

LowerChar(c) ==
    IF \E k \in 1..26 : UpperCase[k] = c
    THEN LowerCase[CHOOSE k \in 1..26 : UpperCase[k] = c]
    ELSE c

\* s.lower()
Lower(s) == [k \in 1..Len(s) |-> LowerChar(s[k])]

(***************************************************************************)
(* chunk_text (src/app.py 1107-1143)                                       *)
(***************************************************************************)

MAX_CHARS_PER_CHUNK == 3000
MIN_CHUNK_CHARS == 500

\* the loop over lines: st = [chunks, current_chunk]
RECURSIVE ChunkLines(_, _, _, _)
ChunkLines(lines, k, st, max_chars) ==
    IF k > Len(lines) THEN st
    ELSE LET line == Strip(lines[k])
         IN  IF line = <<>> THEN ChunkLines(lines, k + 1, st, max_chars)
             ELSE IF Len(st.current_chunk) + Len(line) + 1 > max_chars
                     /\ st.current_chunk # <<>>
                  THEN ChunkLines(lines, k + 1,
                           [chunks |-> Append(st.chunks, Strip(st.current_chunk)),
                            current_chunk |-> line \o <<"\n">>], max_chars)
                  ELSE ChunkLines(lines, k + 1,
                           [chunks |-> st.chunks,
                            current_chunk |-> st.current_chunk \o line \o <<"\n">>],
                           max_chars)

\* small chunks left out instead of merged
RECURSIVE MergeSmallDropping(_, _, _)
MergeSmallDropping(chunks, k, final_chunks) ==
    IF k > Len(chunks) THEN final_chunks
    ELSE IF Len(chunks[k]) < MIN_CHUNK_CHARS /\ final_chunks # <<>>
         THEN MergeSmallDropping(chunks, k + 1, final_chunks)
         ELSE MergeSmallDropping(chunks, k + 1, Append(final_chunks, chunks[k]))

\* the merge pass over chunks
RECURSIVE MergeSmall(_, _, _)
MergeSmall(chunks, k, final_chunks) ==
    IF k > Len(chunks) THEN final_chunks
    ELSE IF Len(chunks[k]) < MIN_CHUNK_CHARS /\ final_chunks # <<>>
         THEN MergeSmall(chunks, k + 1,
                  [final_chunks EXCEPT ![Len(final_chunks)] =
                       @ \o <<"\n", "\n">> \o chunks[k]])
         ELSE MergeSmall(chunks, k + 1, Append(final_chunks, chunks[k]))

\* the text cut every max_chars characters instead of between lines
RECURSIVE ChunkByChars(_, _)
ChunkByChars(text, max_chars) ==
    IF Len(text) <= max_chars THEN <<text>>
    ELSE <<SubSeq(text, 1, max_chars)>>
         \o ChunkByChars(SubSeq(text, max_chars + 1, Len(text)), max_chars)

\* 1112-1143: the path of a text longer than max_chars
ChunkByLines(text, max_chars) ==
    LET st == ChunkLines(Split(text, "\n"), 1,
                  [chunks |-> <<>>, current_chunk |-> <<>>], max_chars)
        chunks == IF Strip(st.current_chunk) # <<>>
                  THEN Append(st.chunks, Strip(st.current_chunk))
                  ELSE st.chunks
    IN  MergeSmall(chunks, 1, <<>>)

\* the early return of 1109-1110 left out
chunk_text_AlwaysByLines(text, max_chars) == ChunkByLines(text, max_chars)

chunk_text(text, max_chars) ==
    IF Len(text) <= max_chars THEN <<text>>
    ELSE ChunkByLines(text, max_chars)

(***************************************************************************)
(* analyze_chunk_with_keywords (src/app.py 1412-1445)                      *)
(***************************************************************************)

violation_keywords == <<
    [type |-> "Personal_Information_Exposure",
     keywords |-> << <<"p","h","o","n","e"," ","n","u","m","b","e","r">>,
                     <<"m","o","b","i","l","e"," ","n","u","m","b","e","r">>,
                     <<"a","d","d","r","e","s","s">>,
                     <<"e","m","a","i","l">> >>],
    [type |-> "OTT_Platform_Promotion",
     keywords |-> << <<"n","e","t","f","l","i","x">>,
                     <<"a","m","a","z","o","n"," ","p","r","i","m","e">>,
                     <<"h","o","t","s","t","a","r">>,
                     <<"z","e","e","5">>,
                     <<"s","o","n","y"," ","l","i","v">> >>],
    [type |-> "National_Anthem_Misuse",
     keywords |-> << <<"n","a","t","i","o","n","a","l"," ","a","n","t","h","e","m">>,
                     <<"j","a","n","a"," ","g","a","n","a"," ","m","a","n","a">> >>],
    [type |-> "Religious_Mockery",
     keywords |-> << <<"m","o","c","k">>,
                     <<"r","i","d","i","c","u","l","e">>,
                     <<"b","l","a","s","p","h","e","m","y">> >>],
    [type |-> "Unauthorized_Branding",
     keywords |-> << <<"b","r","a","n","d">>,
                     <<"l","o","g","o">>,
                     <<"t","r","a","d","e","m","a","r","k">> >>] >>

Absent == "<absent>"

\* the violation dict built at 1434-1441
KeywordViolation(sentence, violation_type) ==
    [violationText |-> Strip(sentence),
     violationType |-> violation_type,
     severity |-> "medium"]

\* the inner break at 1443 left out: every keyword of the category that
\* occurs in the chunk reports its first sentence
RECURSIVE KeywordHitsEveryKeyword(_, _)
KeywordHitsEveryKeyword(chunk, cat) ==
    IF cat.keywords = <<>> THEN <<>>
    ELSE LET keyword == Head(cat.keywords)
             sentences == Split(chunk, ".")
             hit == {s \in 1..Len(sentences) : Contains(Lower(sentences[s]), keyword)}
         IN  (IF Contains(Lower(chunk), keyword) /\ hit # {}
              THEN <<KeywordViolation(sentences[MinOf(hit)], cat.type)>>
              ELSE <<>>)
             \o KeywordHitsEveryKeyword(chunk, [cat EXCEPT !.keywords = Tail(@)])

\* for one category: the first keyword occurring in the chunk decides (the
\* inner break at 1443); the first sentence holding it is reported
KeywordHits(chunk, cat) ==
    LET chunk_lower == Lower(chunk)
        found == {k \in 1..Len(cat.keywords) : Contains(chunk_lower, cat.keywords[k])}
    IN  IF found = {} THEN <<>>
        ELSE LET keyword == cat.keywords[MinOf(found)]
                 sentences == Split(chunk, ".")
                 hit == {s \in 1..Len(sentences) : Contains(Lower(sentences[s]), keyword)}
             IN  IF hit = {} THEN <<>>
                 ELSE <<KeywordViolation(sentences[MinOf(hit)], cat.type)>>

RECURSIVE KeywordScan(_, _)
KeywordScan(chunk, c) ==
    IF c > Len(violation_keywords) THEN <<>>
    ELSE KeywordHits(chunk, violation_keywords[c]) \o KeywordScan(chunk, c + 1)

analyze_chunk_with_keywords(chunk) == [violations |-> KeywordScan(chunk, 1)]

(***************************************************************************)
(* find_page_number (src/app.py 1447-1459)                                 *)
(***************************************************************************)

FUZZY_PREFIX_CHARS == 50

PageOf(page_data) == page_data.original_page

\* the fuzzy search run before the exact one
find_page_number_PrefixFirst(violation_text, pages_data) ==
    LET exact == {p \in 1..Len(pages_data) : Contains(pages_data[p].text, violation_text)}
        search_text == Slice(violation_text, FUZZY_PREFIX_CHARS)
        fuzzy == {p \in 1..Len(pages_data) : Contains(pages_data[p].text, search_text)}
    IN  IF fuzzy # {} THEN PageOf(pages_data[MinOf(fuzzy)])
        ELSE IF exact # {} THEN PageOf(pages_data[MinOf(exact)])
        ELSE 1

find_page_number(violation_text, pages_data) ==
    LET exact == {p \in 1..Len(pages_data) : Contains(pages_data[p].text, violation_text)}
        search_text == IF Len(violation_text) > FUZZY_PREFIX_CHARS
                       THEN SubSeq(violation_text, 1, FUZZY_PREFIX_CHARS)
                       ELSE violation_text
        fuzzy == {p \in 1..Len(pages_data) : Contains(pages_data[p].text, search_text)}
    IN  IF exact # {} THEN PageOf(pages_data[MinOf(exact)])
        ELSE IF fuzzy # {} THEN PageOf(pages_data[MinOf(fuzzy)])
        ELSE 1

(***************************************************************************)
(* Extraction (src/app.py 779-792): the full text with page markers and    *)
(* the page records of a PDF whose pages hold the given raw texts          *)
(***************************************************************************)

Digits == <<"1","2","3","4","5","6","7","8","9">>

PageMarker(page_num) ==
    <<"=","=","="," ","O","R","I","G","I","N","A","L"," ","P","A","G","E"," ">>
    \o <<Digits[page_num]>> \o <<" ","=","=","=">>

RECURSIVE PdfFullText(_, _)
PdfFullText(raw_pages, page_num) ==
    IF page_num > Len(raw_pages) THEN <<>>
    ELSE (IF Strip(raw_pages[page_num]) # <<>>
          THEN <<"\n">> \o PageMarker(page_num) \o <<"\n">>
               \o raw_pages[page_num] \o <<"\n">>
          ELSE <<>>)
         \o PdfFullText(raw_pages, page_num + 1)

RECURSIVE PdfPagesData(_, _)
PdfPagesData(raw_pages, page_num) ==
    IF page_num > Len(raw_pages) THEN <<>>
    ELSE (IF Strip(raw_pages[page_num]) # <<>>
          THEN <<[page_number |-> page_num,
                  text |-> Strip(raw_pages[page_num]),
                  original_page |-> page_num]>>
          ELSE <<>>)
         \o PdfPagesData(raw_pages, page_num + 1)

extract_text_from_pdf_bytes(raw_pages) ==
    [text |-> PdfFullText(raw_pages, 1), pages_data |-> PdfPagesData(raw_pages, 1)]

(***************************************************************************)
(* The documents analysed.  TextA, TextB and TextC share their first 50    *)
(* characters; TextA and TextC share their first 100.                      *)
(***************************************************************************)

TextA == Rep("a", 50) \o Rep("b", 60)
TextB == Rep("a", 50) \o Rep("c", 60)
TextC == Rep("a", 50) \o Rep("b", 50) \o Rep("d", 10)
TextD == Rep("g", 12)
TextShort == Rep("e", 8)
TextElsewhere == Rep("q", 20)

SentNetflix == <<"S","e","e"," ","N","e","t","f","l","i","x","."," ","O","u","r"," ","L","o","g","o",".">>
SentEmail == <<"A","n"," ","E","m","a","i","l",".">>
NL == <<"\n">>

Filler(c, n) == Rep(c, n) \o <<".">>

RawPagesLong == <<
    TextA \o NL \o Filler("x", 1390) \o NL \o SentNetflix \o NL \o TextD
          \o NL \o Filler("y", 1390),
    <<" ", "\n">>,
    TextB \o NL \o TextC \o NL \o TextShort \o NL \o Filler("z", 900) >>

RawPagesShort == << TextA \o NL \o TextShort \o NL \o SentEmail >>

Documents == <<
    [text |-> <<>>, pages_data |-> <<>>],
    extract_text_from_pdf_bytes(RawPagesShort),
    extract_text_from_pdf_bytes(RawPagesLong) >>

\* chunk_text(text) as called at 1518, per document
DocumentChunks == [d \in DOMAIN Documents |->
                      chunk_text(Documents[d].text, MAX_CHARS_PER_CHUNK)]

\* analyze_chunk_with_keywords(chunk) as called at 1410, per document and chunk
KeywordResults == [d \in DOMAIN Documents |->
                      [c \in 1..Len(DocumentChunks[d]) |->
                          analyze_chunk_with_keywords(DocumentChunks[d][c])]]

(***************************************************************************)
(* Provider responses.  A response body is described by how json.loads     *)
(* fares on it and by the parsed object; the items of a violations list    *)
(* are JSON values: objects with or without the expected keys, or other    *)
(* values.                                                                 *)
(***************************************************************************)

None == "<none>"
AbsentText == <<"<absent>">>
NullText == <<"<null>">>

RawItem(is_dict, text, type, severity) ==
    [is_dict |-> is_dict, violationText |-> text,
     violationType |-> type, severity |-> severity]

RawItems == <<
    RawItem(TRUE, TextA, "Religious_Mockery", "high"),
    RawItem(TRUE, TextB, "Religious_Mockery", "critical"),
    RawItem(TRUE, TextC, "Religious_Mockery", "low"),
    RawItem(TRUE, TextA, "Social_Evils_Promotion", "medium"),
    RawItem(TRUE, TextShort, "OTT_Platform_Promotion", Absent),
    RawItem(TRUE, TextD, "Religious_Mockery", "severe"),
    RawItem(TRUE, NullText, "Religious_Mockery", "high"),
    RawItem(TRUE, TextElsewhere, Absent, "high"),
    RawItem(FALSE, AbsentText, Absent, Absent) >>

\* the most violations a run collects from the providers
MaxCollected == 2

\* the violations lists of at most n items a provider may answer with
ItemLists(n) == UNION {[1..m -> DOMAIN RawItems] : m \in 0..n}
Items(list) == [k \in 1..Len(list) |-> RawItems[list[k]]]

Response(kind, code, has_list, violations) ==
    [kind |-> kind, code |-> code, has_list |-> has_list, violations |-> violations]

\* kind: "exception" (timeout, connection error, API error), "status" (HTTP
\* status other than 200), "malformed" (no JSON even in the brace span),
\* "json_scalar" (the body parses to a value that is not an object, and
\* looking 'violations' up in it raises TypeError), "json" (json.loads
\* succeeds), "json_in_text" (only the brace span parses)
ParsedKinds == {"json", "json_in_text"}

MistralFailures ==
    {Response("exception", "timeout", FALSE, <<>>),
     Response("malformed", None, FALSE, <<>>),
     Response("json_scalar", None, FALSE, <<>>)}
    \cup {Response("status", c, FALSE, <<>>) : c \in {"429", "402", "401", "500"}}
    \cup {Response(k, None, FALSE, <<>>) : k \in ParsedKinds}

OpenAIFailures ==
    {Response("exception", c, FALSE, <<>>) :
        c \in {"billing_not_active", "insufficient_quota", "rate_limit",
               "invalid_api_key", "timeout"}}
    \cup {Response("malformed", None, FALSE, <<>>),
          Response("json_scalar", None, FALSE, <<>>)}
    \cup {Response(k, None, FALSE, <<>>) : k \in ParsedKinds}

\* find_page_number(violation_text, pages_data) as called at 1559, per
\* document and violation text a provider or the keyword heuristic can report
ReportedTexts(d) ==
    {RawItems[k].violationText : k \in DOMAIN RawItems}
    \cup UNION {{KeywordResults[d][c].violations[k].violationText :
                    k \in 1..Len(KeywordResults[d][c].violations)} :
                c \in 1..Len(DocumentChunks[d])}

PageNumbers == [d \in DOMAIN Documents |->
                   [t \in ReportedTexts(d) |->
                       find_page_number(t, Documents[d].pages_data)]]

(***************************************************************************)
(* analyze_chunk_with_mistral (1212-1306) and the OpenAI branch of         *)
(* analyze_chunk (1333-1406)                                               *)
(***************************************************************************)

EmptyResult == [violations |-> <<>>]

\* the check of 'violationType' left out
RECURSIVE ValidViolationsTextOnly(_)
ValidViolationsTextOnly(items) ==
    IF items = <<>> THEN <<>>
    ELSE LET violation == Head(items)
         IN  (IF violation.is_dict /\ violation.violationText # AbsentText
              THEN <<[violationText |-> violation.violationText,
                      violationType |-> violation.violationType,
                      severity |-> IF violation.severity = Absent
                                   THEN "medium" ELSE violation.severity]>>
              ELSE <<>>)
             \o ValidViolationsTextOnly(Tail(items))

\* 1282-1289 and 1376-1383: keep the objects holding both keys, default
\* the severity
RECURSIVE ValidViolations(_)
ValidViolations(items) ==
    IF items = <<>> THEN <<>>
    ELSE LET violation == Head(items)
         IN  (IF violation.is_dict /\ violation.violationText # AbsentText
                 /\ violation.violationType # Absent
              THEN <<[violationText |-> violation.violationText,
                      violationType |-> violation.violationType,
                      severity |-> IF violation.severity = Absent
                                   THEN "medium" ELSE violation.severity]>>
              ELSE <<>>)
             \o ValidViolations(Tail(items))

\* 1264-1291 and 1359-1387
ParsedResult(response) ==
    IF response.kind \in {"json", "json_in_text"} /\ response.has_list
    THEN [violations |-> ValidViolations(response.violations)]
    ELSE EmptyResult

\* 1214-1215; 1292-1300 (status); 1273-1276 (malformed); 1304-1306 (any
\* exception, the TypeError of a non-object body included)
analyze_chunk_with_mistral(available, api_key, response) ==
    IF ~available \/ api_key = None THEN EmptyResult
    ELSE IF response.kind \in {"exception", "status", "malformed", "json_scalar"}
         THEN EmptyResult
    ELSE ParsedResult(response)

\* the except branch left out: the exception leaves analyze_chunk
OpenAIResultUncaught(response) ==
    IF response.kind \in {"exception", "json_scalar"} THEN [raised |-> response.kind]
    ELSE IF response.kind = "malformed" THEN EmptyResult
    ELSE ParsedResult(response)

\* the bare except of 1367-1368 left out: the parse error leaves analyze_chunk
OpenAIResultMalformedUncaught(response) ==
    IF response.kind = "malformed" THEN [raised |-> "JSONDecodeError"]
    ELSE IF response.kind \in {"exception", "json_scalar"} THEN EmptyResult
    ELSE ParsedResult(response)

\* 1367-1370 (malformed); 1389-1406 (any exception)
OpenAIResult(response) ==
    IF response.kind \in {"exception", "malformed", "json_scalar"} THEN EmptyResult
    ELSE ParsedResult(response)

(***************************************************************************)
(* Deduplication and ordering of analyze_document (1606-1626)              *)
(***************************************************************************)

DEDUP_PREFIX_CHARS == 50

\* the text left out of the key
duplicate_key_TypeOnly(violation) == <<violation.violationType>>

\* 1615
duplicate_key(violation) ==
    <<Slice(violation.violationText, DEDUP_PREFIX_CHARS), violation.violationType>>

RECURSIVE DedupFrom(_, _, _, _)
DedupFrom(violations, k, seen_violations, unique) ==
    IF k > Len(violations) THEN unique
    ELSE IF duplicate_key(violations[k]) \notin seen_violations
         THEN DedupFrom(violations, k + 1,
                        seen_violations \cup {duplicate_key(violations[k])},
                        Append(unique, violations[k]))
         ELSE DedupFrom(violations, k + 1, seen_violations, unique)

\* nothing recognised as seen
DeduplicateNothing(violations) == violations

\* the kept violations copied without their solution
DeduplicateClearingSolutions(violations) ==
    LET kept == DedupFrom(violations, 1, {}, <<>>)
    IN  [k \in 1..Len(kept) |-> [kept[k] EXCEPT !.aiSolution = Absent]]

\* 1607-1619
Deduplicate(violations) == DedupFrom(violations, 1, {}, <<>>)

\* a severity that is not named ranked above critical
severity_order_UnknownFirst(severity) ==
    CASE severity = "critical" -> 4
      [] severity = "high" -> 3
      [] severity = "medium" -> 2
      [] severity = "low" -> 1
      [] OTHER -> 5

severity_order(severity) ==
    CASE severity = "critical" -> 4
      [] severity = "high" -> 3
      [] severity = "medium" -> 2
      [] severity = "low" -> 1
      [] OTHER -> 1

\* the page left out of the key
SortKeySeverityOnly(violation) == <<0 - severity_order(violation.severity), 0>>

\* the sort key of 1623-1626, as a pair
SortKey(violation) == <<0 - severity_order(violation.severity), violation.pageNumber>>

KeyLess(a, b) == a[1] < b[1] \/ (a[1] = b[1] /\ a[2] < b[2])

\* an unstable sort: an element goes before the elements of equal key
InsertSortedBeforeEqual(sorted, violation) ==
    LET before == {p \in 1..Len(sorted) : KeyLess(SortKey(sorted[p]), SortKey(violation))}
        n == Cardinality(before)
    IN  SubSeq(sorted, 1, n) \o <<violation>> \o SubSeq(sorted, n + 1, Len(sorted))

\* list.sort is stable: an element goes after the elements whose key is not
\* greater than its own
InsertSorted(sorted, violation) ==
    LET after == {p \in 1..Len(sorted) : ~KeyLess(SortKey(violation), SortKey(sorted[p]))}
        n == Cardinality(after)
    IN  SubSeq(sorted, 1, n) \o <<violation>> \o SubSeq(sorted, n + 1, Len(sorted))

RECURSIVE SortFrom(_, _, _)
SortFrom(violations, k, sorted) ==
    IF k > Len(violations) THEN sorted
    ELSE SortFrom(violations, k + 1, InsertSorted(sorted, violations[k]))

SortViolations(violations) == SortFrom(violations, 1, <<>>)

(***************************************************************************)
(* State                                                                   *)
(***************************************************************************)

VARIABLES
    doc,                \* the document analysed: text and pages_data
    MISTRAL_AVAILABLE,  \* the requests import succeeded (21-25)
    OPENAI_AVAILABLE,   \* the openai import succeeded (15-19)
    mistral_key,        \* get_mistral_api_key_with_session()
    openai_key,         \* get_api_key()
    pc,                 \* position in analyze_document / analyze_chunk
    i,                  \* index of the chunk being analysed (1-based)
    attempts,           \* providers tried by the current analyze_chunk call
    result,             \* the value analyze_chunk returns for chunk i
    analysed,           \* the chunks passed to analyze_chunk so far
    all_violations,
    successful_chunks,
    j,                  \* index of the violation whose solution is generated
    solution_calls,     \* the violations generate_ai_solution was called for
    solution_requests,  \* the remote requests made by generate_ai_solution
    unique_violations,
    ret,                \* the value analyze_document returns
    call,               \* the last call of a function on its own: inputs and value
    calls_since_delay,  \* per remote provider, the calls made since the last
                        \* time.sleep(CHUNK_DELAY) of the run
    session             \* st.session_state: the keys main and authenticate_user use

vars == <<doc, MISTRAL_AVAILABLE, OPENAI_AVAILABLE, mistral_key, openai_key, pc, i,
          attempts, result, analysed, all_violations, successful_chunks, j,
          solution_calls, solution_requests, unique_violations, ret, call,
          calls_since_delay, session>>

config == <<doc, MISTRAL_AVAILABLE, OPENAI_AVAILABLE, mistral_key, openai_key>>

text == Documents[doc].text
pages_data == Documents[doc].pages_data
chunks == DocumentChunks[doc]

MistralUsable == MISTRAL_AVAILABLE /\ mistral_key # None
OpenAIUsable == OPENAI_AVAILABLE /\ openai_key # None

NoCall == [fn |-> "<none>"]

\* no remote call made yet
NoRemoteCalls == [mistral |-> 0, openai |-> 0]

\* a request is sent to the provider (1258, 1346, 1018, 1084); nothing in
\* the run sleeps before or after it
RemoteCall(provider) == [calls_since_delay EXCEPT ![provider] = @ + 1]

(***************************************************************************)
(* st.session_state and the script run of main (src/app.py 518-623 and     *)
(* 2452-2782).  A session is the set of its keys and their values; the     *)
(* value kept for a missing key is the one the code initialises it with.   *)
(***************************************************************************)

EmptySession ==
    [keys |-> {}, authenticated |-> FALSE, user_email |-> <<>>,
     analysis_complete |-> FALSE, violations_data |-> None,
     current_filename |-> None]

HOICHOI_DOMAIN == <<"@","h","o","i","c","h","o","i",".","t","v">>
MIN_PASSWORD_CHARS == 6

\* s.endswith(suffix)
EndsWith(s, suffix) ==
    /\ Len(s) >= Len(suffix)
    /\ SubSeq(s, Len(s) - Len(suffix) + 1, Len(s)) = suffix

\* the domain looked for anywhere in the address instead of at its end
check_email_domain_Anywhere(email) == Contains(Strip(Lower(email)), HOICHOI_DOMAIN)

check_email_domain(email) == EndsWith(Strip(Lower(email)), HOICHOI_DOMAIN)

\* a script run no button of which is pressed
NoButton == [button |-> "none"]

\* authenticate_user: the session it leaves, whether it returns True, and
\* whether it ends the run with st.rerun()
authenticate_user(s, request) ==
    LET s1 == IF "authenticated" \in s.keys THEN s
              ELSE [s EXCEPT !.keys = @ \cup {"authenticated"},
                             !.authenticated = FALSE]
    IN  IF s1.authenticated
        THEN [session |-> s1, ok |-> TRUE, rerun |-> FALSE]
        ELSE IF /\ request.button = "login"
                /\ request.email # <<>> /\ request.password # <<>>
                /\ check_email_domain(request.email)
                /\ Len(request.password) >= MIN_PASSWORD_CHARS
             THEN [session |-> [s1 EXCEPT !.authenticated = TRUE,
                                          !.keys = @ \cup {"user_email"},
                                          !.user_email = request.email],
                   ok |-> FALSE, rerun |-> TRUE]
             ELSE [session |-> s1, ok |-> FALSE, rerun |-> FALSE]

\* 2457-2463
InitAnalysisKeys(s) ==
    [s EXCEPT !.keys = @ \cup {"analysis_complete", "violations_data",
                               "current_filename"}]

\* the flag left as it is
ResetAnalysisKeepingFlag(s) ==
    [s EXCEPT !.violations_data = None, !.current_filename = None]

\* 2612-2614
ResetAnalysis(s) ==
    [s EXCEPT !.analysis_complete = FALSE, !.violations_data = None,
              !.current_filename = None]

\* the dict stored at 2746-2752, named by the file it was made from
ViolationsData(file) == "violations_data of " \o file

\* 2746-2754
StoreResults(s, file) ==
    [s EXCEPT !.violations_data = ViolationsData(file),
              !.current_filename = file,
              !.analysis_complete = TRUE]

\* one run of main on a request: the session it leaves, what it did
\* (extraction, analysis, store of the results) and whether it ended with
\* st.rerun()
main(s, request) ==
    LET a == authenticate_user(s, request)
        s2 == InitAnalysisKeys(a.session)
        Ran(left, did, rerun) == [session |-> left, did |-> did, rerun |-> rerun]
    IN  IF ~a.ok THEN Ran(a.session, {}, a.rerun)
        ELSE CASE request.button = "new_analysis" -> Ran(ResetAnalysis(s2), {}, TRUE)
               [] request.button = "logout" -> Ran(EmptySession, {}, TRUE)
               [] request.button = "start_analysis" ->
                    (IF s2.analysis_complete /\ s2.violations_data # None
                     THEN Ran(s2, {}, FALSE)
                     ELSE CASE request.outcome = "no_text" ->
                                 Ran(s2, {"extraction"}, FALSE)
                            [] request.outcome = "raises" ->
                                 Ran(s2, {"extraction", "analysis"}, FALSE)
                            [] request.outcome = "analysed" ->
                                 Ran(StoreResults(s2, request.file),
                                     {"extraction", "analysis", "store"}, FALSE))
               [] request.button = "analyze_text" -> Ran(s2, {"analysis"}, FALSE)
               [] OTHER -> Ran(s2, {}, FALSE)

\* the run a request starts and, after st.rerun(), the run that follows
ScriptRun(s, request) ==
    LET r == main(s, request)
    IN  IF r.rerun
        THEN [session |-> main(r.session, NoButton).session,
              did |-> r.did \cup main(r.session, NoButton).did]
        ELSE [session |-> r.session, did |-> r.did]

\* the session of a logged-in user before any analysis (585-588, 2458-2463)
FreshSession ==
    ScriptRun(EmptySession,
              [button |-> "login", email |-> <<"s","p","@","h","o","i","c","h","o","i",".","t","v">>,
               password |-> <<"s","e","c","r","e","t">>]).session

Init ==
    /\ doc \in DOMAIN Documents
    /\ MISTRAL_AVAILABLE \in BOOLEAN
    /\ OPENAI_AVAILABLE \in BOOLEAN
    /\ mistral_key \in {None, "mistral-key"}
    /\ openai_key \in {None, "openai-key"}
    /\ pc = "start"
    /\ i = 1
    /\ attempts = <<>>
    /\ result = EmptyResult
    /\ analysed = <<>>
    /\ all_violations = <<>>
    /\ successful_chunks = 0
    /\ j = 1
    /\ solution_calls = <<>>
    /\ solution_requests = <<>>
    /\ unique_violations = <<>>
    /\ ret = [violations |-> <<>>, summary |-> <<>>]
    /\ call = NoCall
    /\ calls_since_delay = NoRemoteCalls
    /\ session = FreshSession

(***************************************************************************)
(* analyze_document, entry (1461-1526)                                     *)
(***************************************************************************)

\* 1463-1464
AbandonEmptyText ==
    /\ pc = "start"
    /\ text = <<>>
    /\ ret' = [violations |-> <<>>, summary |-> <<>>]
    /\ pc' = "done"
    /\ UNCHANGED <<config, call, session, calls_since_delay, i, attempts, result, analysed, all_violations,
                   successful_chunks, j, solution_calls, solution_requests, unique_violations>>

\* 1470-1472
AbandonNoKeys ==
    /\ pc = "start"
    /\ text # <<>>
    /\ mistral_key = None /\ openai_key = None
    /\ ret' = [violations |-> <<>>, summary |-> <<>>]
    /\ pc' = "done"
    /\ UNCHANGED <<config, call, session, calls_since_delay, i, attempts, result, analysed, all_violations,
                   successful_chunks, j, solution_calls, solution_requests, unique_violations>>

\* 1518-1528
StartChunks ==
    /\ pc = "start"
    /\ text # <<>>
    /\ ~(mistral_key = None /\ openai_key = None)
    /\ i' = 1
    /\ pc' = IF chunks = <<>> THEN "solutions" ELSE "chunk"
    /\ UNCHANGED <<config, call, session, calls_since_delay, attempts, result, analysed, all_violations,
                   successful_chunks, j, solution_calls, solution_requests, unique_violations, ret>>

(***************************************************************************)
(* analyze_chunk(chunks[i]) (1309-1410), called at 1547                    *)
(***************************************************************************)

\* what one provider call came to: "error" (exception or HTTP status),
\* "malformed" (no JSON object with a violations list), "empty" (an empty
\* violations list), "none_valid" (a list none of whose items is kept),
\* "violations"
Outcome(response, r) ==
    IF response.kind \in {"exception", "status"} THEN "error"
    ELSE IF response.kind \in {"malformed", "json_scalar"} \/ ~response.has_list
         THEN "malformed"
    ELSE IF response.violations = <<>> THEN "empty"
    ELSE IF r.violations = <<>> THEN "none_valid"
    ELSE "violations"

Attempt(provider, response, r) ==
    [provider |-> provider, outcome |-> Outcome(response, r)]

MistralAnswers(response) ==
    LET r == analyze_chunk_with_mistral(MISTRAL_AVAILABLE, mistral_key, response)
    IN  /\ result' = r
        /\ attempts' = Append(attempts, Attempt("mistral", response, r))
        /\ pc' = IF r.violations # <<>> THEN "collect" ELSE "openai"

OpenAIAnswers(response) ==
    /\ result' = OpenAIResult(response)
    /\ attempts' = Append(attempts, Attempt("openai", response, OpenAIResult(response)))
    /\ pc' = "collect"

\* 1314-1318: Mistral is called; its result is returned only if it holds
\* violations
MistralAttempt ==
    /\ pc = "chunk"
    /\ MistralUsable
    /\ calls_since_delay' = RemoteCall("mistral")
    /\ \/ \E response \in MistralFailures : MistralAnswers(response)
       \/ \E k \in ParsedKinds, list \in ItemLists(MaxCollected - Len(all_violations)) :
             MistralAnswers(Response(k, None, TRUE, Items(list)))
    /\ analysed' = Append(analysed, i)
    /\ UNCHANGED <<config, call, session, i, all_violations, successful_chunks, j, solution_calls, solution_requests,
                   unique_violations, ret>>

\* 1314 false: Mistral is not tried
MistralSkipped ==
    /\ pc = "chunk"
    /\ ~MistralUsable
    /\ analysed' = Append(analysed, i)
    /\ pc' = "openai"
    /\ UNCHANGED <<config, call, session, calls_since_delay, i, attempts, result, all_violations, successful_chunks, j,
                   solution_calls, solution_requests, unique_violations, ret>>

\* 1332-1406: every path of the OpenAI branch returns
OpenAIAttempt ==
    /\ pc = "openai"
    /\ OpenAIUsable
    /\ calls_since_delay' = RemoteCall("openai")
    /\ \/ \E response \in OpenAIFailures : OpenAIAnswers(response)
       \/ \E k \in ParsedKinds, list \in ItemLists(MaxCollected - Len(all_violations)) :
             OpenAIAnswers(Response(k, None, TRUE, Items(list)))
    /\ UNCHANGED <<config, call, session, i, analysed, all_violations, successful_chunks, j,
                   solution_calls, solution_requests, unique_violations, ret>>

\* 1408-1410
KeywordFallback ==
    /\ pc = "openai"
    /\ ~OpenAIUsable
    /\ result' = KeywordResults[doc][i]
    /\ attempts' = Append(attempts, [provider |-> "keywords", outcome |-> "local"])
    /\ pc' = "collect"
    /\ UNCHANGED <<config, call, session, calls_since_delay, i, analysed, all_violations, successful_chunks, j,
                   solution_calls, solution_requests, unique_violations, ret>>

(***************************************************************************)
(* analyze_document, collection of one chunk's violations (1549-1567)      *)
(***************************************************************************)

\* 1559-1564; oid stands for the identity of the dict
Collected(violation, chunk_number, oid) ==
    [violationText |-> violation.violationText,
     violationType |-> violation.violationType,
     severity |-> violation.severity,
     pageNumber |-> PageNumbers[doc][violation.violationText],
     chunkNumber |-> chunk_number,
     aiSolution |-> Absent,
     oid |-> oid]

\* 1555: iterating over a violationText that is JSON null raises TypeError
Raises(violations) == \E k \in 1..Len(violations) : violations[k].violationText = NullText

CollectChunk ==
    /\ pc = "collect"
    /\ IF Raises(result.violations)
       THEN /\ pc' = "raised"
            /\ UNCHANGED <<i, all_violations, successful_chunks>>
       ELSE /\ all_violations' = all_violations \o
                   [k \in 1..Len(result.violations) |->
                       Collected(result.violations[k], i, Len(all_violations) + k)]
            /\ successful_chunks' = IF result.violations # <<>>
                                    THEN successful_chunks + 1 ELSE successful_chunks
            /\ i' = i + 1
            /\ pc' = IF i + 1 > Len(chunks) THEN "solutions" ELSE "chunk"
    /\ result' = EmptyResult
    /\ attempts' = <<>>
    /\ UNCHANGED <<config, call, session, calls_since_delay, analysed, j, solution_calls, solution_requests, unique_violations, ret>>

(***************************************************************************)
(* generate_ai_solution (944-1105), called for every collected violation   *)
(* at 1574-1598                                                            *)
(***************************************************************************)

SolutionText == "<revised content>"
NotAvailableText == "AI solution generation not available"

\* the except branch recording nothing
SolutionErrorUnrecorded(error_msg) == Absent

\* 1099-1105
SolutionErrorText(error_msg) ==
    IF error_msg = "billing_not_active" THEN "OpenAI billing issue"
    ELSE IF error_msg \in {"insufficient_quota", "quota"} THEN "OpenAI quota exceeded"
    ELSE "Error generating solution"

SetSolution(solution) ==
    /\ all_violations' = [all_violations EXCEPT ![j].aiSolution = solution]
    /\ j' = j + 1
    /\ pc' = "solutions"

\* one remote request of generate_ai_solution for violation j
SolutionRequest(provider, key, outcome) ==
    [violation |-> all_violations[j].oid, provider |-> provider, key |-> key,
     outcome |-> outcome]

\* 947-1031: a 200 returns the solution, anything else (another status, an
\* exception) falls to OpenAI
SolutionMistral ==
    /\ pc = "solutions"
    /\ j <= Len(all_violations)
    /\ MistralUsable
    /\ calls_since_delay' = RemoteCall("mistral")
    /\ solution_calls' = Append(solution_calls, all_violations[j].oid)
    /\ \/ /\ solution_requests' = Append(solution_requests,
                                          SolutionRequest("mistral", mistral_key, "ok"))
          /\ SetSolution(SolutionText)
       \/ /\ solution_requests' = Append(solution_requests,
                                          SolutionRequest("mistral", mistral_key, "failed"))
          /\ pc' = "solution_openai"
          /\ UNCHANGED <<all_violations, j>>
    /\ UNCHANGED <<config, call, session, i, attempts, result, analysed, successful_chunks,
                   unique_violations, ret>>

\* 948 false: Mistral is not tried
SolutionMistralSkipped ==
    /\ pc = "solutions"
    /\ j <= Len(all_violations)
    /\ ~MistralUsable
    /\ solution_calls' = Append(solution_calls, all_violations[j].oid)
    /\ pc' = "solution_openai"
    /\ UNCHANGED <<config, call, session, calls_since_delay, i, attempts, result, analysed, all_violations,
                   successful_chunks, j, solution_requests, unique_violations, ret>>

\* the api_key argument passed at 1584
SolutionApiKey == IF mistral_key # None THEN mistral_key ELSE openai_key

\* 1034-1035
SolutionNotAvailable ==
    /\ pc = "solution_openai"
    /\ ~OPENAI_AVAILABLE \/ SolutionApiKey = None
    /\ SetSolution(NotAvailableText)
    /\ UNCHANGED <<config, call, session, calls_since_delay, i, attempts, result, analysed, successful_chunks,
                   solution_calls, solution_requests, unique_violations, ret>>

\* 1037-1105: the answer is the solution; any exception is turned into a
\* message
SolutionOpenAI ==
    /\ pc = "solution_openai"
    /\ OPENAI_AVAILABLE /\ SolutionApiKey # None
    /\ calls_since_delay' = RemoteCall("openai")
    /\ \E outcome \in {"ok", "insufficient_quota", "timeout"} :
          /\ solution_requests' = Append(solution_requests,
                 SolutionRequest("openai", SolutionApiKey,
                                 IF outcome = "ok" THEN "ok" ELSE "failed"))
          /\ SetSolution(IF outcome = "ok" THEN SolutionText
                         ELSE SolutionErrorText(outcome))
    /\ UNCHANGED <<config, call, session, i, attempts, result, analysed, successful_chunks,
                   solution_calls, unique_violations, ret>>

(***************************************************************************)
(* analyze_document, deduplication, ordering and return (1603-1642)        *)
(***************************************************************************)

DeduplicateViolations ==
    /\ pc = "solutions"
    /\ j > Len(all_violations)
    /\ unique_violations' = Deduplicate(all_violations)
    /\ pc' = "sort"
    /\ UNCHANGED <<config, call, session, calls_since_delay, i, attempts, result, analysed, all_violations,
                   successful_chunks, j, solution_calls, solution_requests, ret>>

SortAndReturn ==
    /\ pc = "sort"
    /\ unique_violations' = SortViolations(unique_violations)
    /\ ret' = [violations |-> unique_violations',
               summary |-> [totalViolations |-> Len(unique_violations'),
                            totalPages |-> Len(pages_data),
                            chunksAnalyzed |-> Len(chunks),
                            chunksWithViolations |-> successful_chunks,
                            primaryAPI |-> IF mistral_key # None
                                           THEN "Mistral" ELSE "OpenAI"]]
    /\ pc' = "done"
    /\ UNCHANGED <<config, call, session, calls_since_delay, i, attempts, result, analysed, all_violations,
                   successful_chunks, j, solution_calls, solution_requests>>

Next ==
    \/ AbandonEmptyText
    \/ AbandonNoKeys
    \/ StartChunks
    \/ MistralAttempt
    \/ MistralSkipped
    \/ OpenAIAttempt
    \/ KeywordFallback
    \/ CollectChunk
    \/ SolutionMistral
    \/ SolutionMistralSkipped
    \/ SolutionNotAvailable
    \/ SolutionOpenAI
    \/ DeduplicateViolations
    \/ SortAndReturn

Spec == Init /\ [][Next]_vars

(***************************************************************************)
(* chunk_text and find_page_number called on their own, on texts built     *)
(* from lines of several lengths and on page lists built from a pool of    *)
(* pages                                                                   *)
(***************************************************************************)

\* the most lines of a text passed to chunk_text
MaxLines == 3
\* the most page records passed to find_page_number
MaxPages == 2

LineKinds == {"blank", "indented", "medium", "long", "near_max"}

\* line k of a text: its characters name its position
Line(kind, k) ==
    LET c == LowerCase[k]
    IN  CASE kind = "blank" -> <<" ", "\t">>
          [] kind = "indented" -> <<" ", " ">> \o Rep(c, 96) \o <<" ", " ">>
          [] kind = "medium" -> Rep(c, 599)
          [] kind = "long" -> Rep(c, 2400)
          [] kind = "near_max" -> Rep(c, 2990)

LineLists(n) == UNION {[1..m -> LineKinds] : m \in 0..n}

\* '\n'.join(lines)
RECURSIVE JoinLines(_, _)
JoinLines(kinds, k) ==
    IF k > Len(kinds) THEN <<>>
    ELSE Line(kinds[k], k) \o (IF k < Len(kinds) THEN <<"\n">> ELSE <<>>)
         \o JoinLines(kinds, k + 1)

TextOfLines(kinds) == JoinLines(kinds, 1)

\* the max_chars chunk_text is called with: the default and a smaller one
MaxCharsValues == {MAX_CHARS_PER_CHUNK, 1000}

\* the page records find_page_number is called with
PagePool == <<
    [page_number |-> 2, original_page |-> 2,
     text |-> <<"s", "e", "e", " ">> \o Rep("a", 50) \o <<"z", "z">>],
    [page_number |-> 3, original_page |-> 3,
     text |-> TextA \o <<" ">> \o TextShort],
    [page_number |-> 4, original_page |-> 4,
     text |-> TextD] >>

PageLists(n) ==
    {l \in UNION {[1..m -> DOMAIN PagePool] : m \in 0..n} :
        \A a, b \in DOMAIN l : a # b => l[a] # l[b]}

PagesOf(list) == [k \in 1..Len(list) |-> PagePool[list[k]]]

SearchedTexts == {TextA, TextB, TextD, TextShort, TextElsewhere, <<>>}

FunctionInit ==
    /\ doc = 1
    /\ MISTRAL_AVAILABLE = FALSE
    /\ OPENAI_AVAILABLE = FALSE
    /\ mistral_key = None
    /\ openai_key = None
    /\ pc = "function"
    /\ i = 1
    /\ attempts = <<>>
    /\ result = EmptyResult
    /\ analysed = <<>>
    /\ all_violations = <<>>
    /\ successful_chunks = 0
    /\ j = 1
    /\ solution_calls = <<>>
    /\ solution_requests = <<>>
    /\ unique_violations = <<>>
    /\ ret = [violations |-> <<>>, summary |-> <<>>]
    /\ call = NoCall
    /\ calls_since_delay = NoRemoteCalls
    /\ session = FreshSession

pipeline == <<config, calls_since_delay, session, i, attempts, result, analysed, all_violations,
              successful_chunks, j, solution_calls, solution_requests,
              unique_violations, ret>>

\* chunk_text(text, max_chars)
ChunkTextCall ==
    /\ pc = "function"
    /\ \E lines \in LineLists(MaxLines), max_chars \in MaxCharsValues :
          call' = [fn |-> "chunk_text", lines |-> lines, max_chars |-> max_chars,
                   units |-> chunk_text(TextOfLines(lines), max_chars)]
    /\ pc' = "returned"
    /\ UNCHANGED pipeline

\* find_page_number(violation_text, pages_data)
FindPageNumberCall ==
    /\ pc = "function"
    /\ \E violation_text \in SearchedTexts, list \in PageLists(MaxPages) :
          call' = [fn |-> "find_page_number", violation_text |-> violation_text,
                   pages |-> list,
                   page |-> find_page_number(violation_text, PagesOf(list))]
    /\ pc' = "returned"
    /\ UNCHANGED pipeline

\* the most '.'-delimited sentences of a unit passed to
\* analyze_chunk_with_keywords
MaxSentences == 2

\* the sentences the units are built from
SentencePool == <<
    <<"S","e","e"," ","N","e","t","f","l","i","x">>,
    <<" ","O","u","r"," ","L","o","g","o">>,
    <<" ","A","n"," ","E","m","a","i","l">>,
    <<" ","M","O","C","K"," ","t","h","e"," ","b","r","a","n","d">>,
    <<" ","C","a","l","l"," ","m","y"," ","p","h","o","n","e"," ","n","u","m","b","e","r"," ","o","r"," ","m","o","b","i","l","e"," ","n","u","m","b","e","r">>,
    <<" ","o","n"," ","H","o","t","s","t","a","r"," ","a","n","d"," ","n","e","t","f","l","i","x">>,
    <<" ","p","l","a","i","n">> >>

SentenceLists(n) == UNION {[1..m -> DOMAIN SentencePool] : m \in 0..n}

\* '.'.join(sentences)
RECURSIVE JoinSentences(_, _)
JoinSentences(list, k) ==
    IF k > Len(list) THEN <<>>
    ELSE SentencePool[list[k]] \o (IF k < Len(list) THEN <<".">> ELSE <<>>)
         \o JoinSentences(list, k + 1)

ChunkOfSentences(list) == JoinSentences(list, 1)

\* analyze_chunk_with_keywords(chunk)
KeywordsCall ==
    /\ pc = "function"
    /\ \E list \in SentenceLists(MaxSentences) :
          call' = [fn |-> "analyze_chunk_with_keywords", sentences |-> list,
                   violations |->
                       analyze_chunk_with_keywords(ChunkOfSentences(list)).violations]
    /\ pc' = "returned"
    /\ UNCHANGED pipeline

\* the provider paths of analyze_chunk on a response whose body parses and
\* holds a violations list: analyze_chunk_with_mistral (1264-1291) and the
\* OpenAI branch (1359-1385)
ValidateCall ==
    /\ pc = "function"
    /\ \E provider \in {"mistral", "openai"}, kind \in ParsedKinds,
          list \in ItemLists(MaxCollected) :
          LET response == Response(kind, None, TRUE, Items(list))
          IN  call' = [fn |-> "validate", provider |-> provider, items |-> list,
                       violations |->
                           IF provider = "mistral"
                           THEN analyze_chunk_with_mistral(TRUE, "mistral-key",
                                                           response).violations
                           ELSE OpenAIResult(response).violations]
    /\ pc' = "returned"
    /\ UNCHANGED pipeline

FunctionNext ==
    ChunkTextCall \/ FindPageNumberCall \/ KeywordsCall \/ ValidateCall

FunctionSpec == FunctionInit /\ [][FunctionNext]_vars

(***************************************************************************)
(* extract_text_from_pdf_bytes followed by chunk_text, as analyze_document *)
(* is given the text of an uploaded PDF: the pages are drawn from pages    *)
(* of several lengths                                                      *)
(***************************************************************************)

\* the most pages of an uploaded PDF
MaxPdfPages == 3

PdfPageKinds == {"blank", "short", "two_lines", "long", "near_max"}

\* the text of page k, as a tuple: its characters name the page
PdfPage(kind, k) ==
    LET c == LowerCase[k]
    IN  <<>> \o (CASE kind = "blank" -> <<" ", "\n">>
                   [] kind = "short" -> Rep(c, 100)
                   [] kind = "two_lines" -> Rep(c, 599) \o <<"\n", " ">> \o Rep(c, 300)
                   [] kind = "long" -> Rep(c, 2400)
                   [] kind = "near_max" -> Rep(c, 2960))

PdfPageLists(n) == UNION {[1..m -> PdfPageKinds] : m \in 0..n}

RawPagesOf(kinds) == [k \in 1..Len(kinds) |-> PdfPage(kinds[k], k)]

ExtractionInit ==
    /\ doc = 1
    /\ MISTRAL_AVAILABLE = FALSE
    /\ OPENAI_AVAILABLE = FALSE
    /\ mistral_key = None
    /\ openai_key = None
    /\ pc = "extract"
    /\ i = 1
    /\ attempts = <<>>
    /\ result = EmptyResult
    /\ analysed = <<>>
    /\ all_violations = <<>>
    /\ successful_chunks = 0
    /\ j = 1
    /\ solution_calls = <<>>
    /\ solution_requests = <<>>
    /\ unique_violations = <<>>
    /\ ret = [violations |-> <<>>, summary |-> <<>>]
    /\ call = NoCall
    /\ calls_since_delay = NoRemoteCalls
    /\ session = FreshSession

\* extract_text_from_pdf_bytes(file_bytes)
ExtractCall ==
    /\ pc = "extract"
    /\ \E kinds \in PdfPageLists(MaxPdfPages) :
          call' = [fn |-> "extract_text_from_pdf_bytes", pages |-> kinds,
                   units |-> <<>>]
    /\ pc' = "extracted"
    /\ UNCHANGED pipeline

\* chunk_text(text) on the extracted text (1518)
ChunkExtractedCall ==
    /\ pc = "extracted"
    /\ call' = [call EXCEPT
                   !.fn = "chunk_text",
                   !.units = chunk_text(
                       extract_text_from_pdf_bytes(RawPagesOf(call.pages)).text,
                       MAX_CHARS_PER_CHUNK)]
    /\ pc' = "returned"
    /\ UNCHANGED pipeline

ExtractionNext == ExtractCall \/ ChunkExtractedCall

ExtractionSpec == ExtractionInit /\ [][ExtractionNext]_vars

(***************************************************************************)
(* The session: script runs of main started by opening the page or by a   *)
(* button, in any order                                                    *)
(***************************************************************************)

Emails == {
    <<"a","@","h","o","i","c","h","o","i",".","t","v">>,
    <<" ","A","@","H","O","I","C","H","O","I",".","T","V","\n">>,
    <<"a","@","h","o","i","c","h","o","i",".","t","v",".","x">>,
    <<"a","@","g","m","a","i","l",".","c","o","m">>,
    <<>>,
    <<"@","h","o","i","c","h","o","i",".","t","v">> }

Passwords == {<<>>, <<"1","2","3","4","5">>, <<"1","2","3","4","5","6">>}

UploadedFiles == {"script.pdf", "script.docx"}

\* the ways a started analysis goes: no text extracted (2736-2738),
\* analyze_document raises, analyze_document returns
AnalysisOutcomes == {"no_text", "raises", "analysed"}

SessionInit ==
    /\ doc = 1
    /\ MISTRAL_AVAILABLE = FALSE
    /\ OPENAI_AVAILABLE = FALSE
    /\ mistral_key = None
    /\ openai_key = None
    /\ pc = "session"
    /\ i = 1
    /\ attempts = <<>>
    /\ result = EmptyResult
    /\ analysed = <<>>
    /\ all_violations = <<>>
    /\ successful_chunks = 0
    /\ j = 1
    /\ solution_calls = <<>>
    /\ solution_requests = <<>>
    /\ unique_violations = <<>>
    /\ ret = [violations |-> <<>>, summary |-> <<>>]
    /\ call = NoCall
    /\ calls_since_delay = NoRemoteCalls
    /\ session = EmptySession

analysis_state == <<config, calls_since_delay, i, attempts, result, analysed,
                    all_violations, successful_chunks, j, solution_calls,
                    solution_requests, unique_violations, ret>>

\* the session a script run on the request leaves, and the record of the run
Handled(request) ==
    [session |-> ScriptRun(session, request).session,
     call |-> [fn |-> "main", request |-> request,
               did |-> ScriptRun(session, request).did]]

\* the page is opened or reloaded
OpenPage ==
    /\ pc = "session"
    /\ session' = Handled(NoButton).session
    /\ call' = Handled(NoButton).call
    /\ UNCHANGED <<pc, analysis_state>>

\* the Login button (583-598)
Login ==
    /\ pc = "session"
    /\ \E email \in Emails, password \in Passwords :
          LET request == [button |-> "login", email |-> email,
                          password |-> password]
          IN  /\ session' = Handled(request).session
              /\ call' = Handled(request).call
    /\ UNCHANGED <<pc, analysis_state>>

\* the Start Analysis button of the upload tab (2728-2757)
StartAnalysis ==
    /\ pc = "session"
    /\ \E file \in UploadedFiles, outcome \in AnalysisOutcomes :
          LET request == [button |-> "start_analysis", file |-> file,
                          outcome |-> outcome]
          IN  /\ session' = Handled(request).session
              /\ call' = Handled(request).call
    /\ UNCHANGED <<pc, analysis_state>>

\* the Analyze Text button of the paste tab (2772-2782)
AnalyzeText ==
    /\ pc = "session"
    /\ session' = Handled([button |-> "analyze_text"]).session
    /\ call' = Handled([button |-> "analyze_text"]).call
    /\ UNCHANGED <<pc, analysis_state>>

\* the New Analysis button (2610-2617)
NewAnalysis ==
    /\ pc = "session"
    /\ session' = Handled([button |-> "new_analysis"]).session
    /\ call' = Handled([button |-> "new_analysis"]).call
    /\ UNCHANGED <<pc, analysis_state>>

\* the Logout button (2619-2622)
Logout ==
    /\ pc = "session"
    /\ session' = Handled([button |-> "logout"]).session
    /\ call' = Handled([button |-> "logout"]).call
    /\ UNCHANGED <<pc, analysis_state>>

SessionNext ==
    OpenPage \/ Login \/ StartAnalysis \/ AnalyzeText \/ NewAnalysis \/ Logout

SessionSpec == SessionInit /\ [][SessionNext]_vars

(***************************************************************************)
(* Properties                                                              *)
(***************************************************************************)

Returned == pc = "collect"      \* analyze_chunk has returned `result` for chunk i
Aggregated == pc \in {"sort", "done"}   \* unique_violations has been computed

\* C1: if Mistral and then OpenAI both fail for a unit (error status,
\* exception, quota or rate-limit error, timeout), analyze_chunk returns
\* what analyze_chunk_with_keywords returns for that unit.
C1_BothFailThenKeywordResult ==
    (/\ Returned
     /\ Len(attempts) = 2
     /\ attempts[1] = [provider |-> "mistral", outcome |-> "error"]
     /\ attempts[2] = [provider |-> "openai", outcome |-> "error"])
    => result = analyze_chunk_with_keywords(chunks[i])

\* C2: when Mistral answers a unit with an empty violations list, that is
\* the unit's result: no later attempt (OpenAI, keyword heuristic) is made
\* for the unit.
C2_EmptyMistralAnswerIsFinal ==
    \A k \in 1..Len(attempts) :
        attempts[k] = [provider |-> "mistral", outcome |-> "empty"]
        => Len(attempts) = k

\* C3: for every unit and every combination of provider outcomes,
\* analyze_chunk goes on to its next step and returns a dict holding a
\* list under 'violations'.
C3_AlwaysReturnsViolationsList ==
    /\ pc = "chunk" => ENABLED (MistralAttempt \/ MistralSkipped)
    /\ pc = "openai" => ENABLED (OpenAIAttempt \/ KeywordFallback)
    /\ pc \in {"openai", "collect"} =>
          /\ DOMAIN result = {"violations"}
          /\ DOMAIN result.violations = 1..Len(result.violations)

C3_Witness ==
    /\ Returned
    /\ Len(attempts) = 2
    /\ attempts[1].outcome = "error"
    /\ attempts[2].outcome = "malformed"
    /\ result = EmptyResult

ChainRank(provider) ==
    CASE provider = "mistral" -> 1
      [] provider = "openai" -> 2
      [] provider = "keywords" -> 3

Succeeded(attempt) == attempt.outcome \in {"empty", "none_valid", "violations", "local"}

\* C4: for one unit the providers are attempted in chain order, each at
\* most once, none after an attempt that succeeded, and the unit ends with
\* an attempt that succeeded.
C4_ChainOrderUntilSuccess ==
    /\ \A k, l \in 1..Len(attempts) :
          k < l => /\ ChainRank(attempts[k].provider) < ChainRank(attempts[l].provider)
                   /\ ~Succeeded(attempts[k])
    /\ Returned => attempts # <<>> /\ Succeeded(attempts[Len(attempts)])

\* the dedup key the specification names
Key100TypePage(v) == <<Slice(v.violationText, 100), v.violationType, v.pageNumber>>
\* the dedup key of the first 50 characters and the type
Key50Type(v) == <<Slice(v.violationText, 50), v.violationType>>

Kept(k) == \E u \in 1..Len(unique_violations) : unique_violations[u].oid = all_violations[k].oid

\* C5 as stated: a violation is dropped only if an earlier one has the same
\* (violationText[:100], violationType, pageNumber).
C5_DroppedOnlyOnSameKey100TypePage ==
    Aggregated =>
        \A k \in 1..Len(all_violations) :
            ~Kept(k) => \E e \in 1..(k - 1) :
                            Key100TypePage(all_violations[e]) = Key100TypePage(all_violations[k])

\* C5 amended: a violation is dropped only if an earlier one has the same
\* (violationText[:50], violationType); one whose key differs from every
\* earlier one in either component is kept.
C5_DroppedOnlyOnSameKey50Type ==
    Aggregated =>
        \A k \in 1..Len(all_violations) :
            ~Kept(k) => \E e \in 1..(k - 1) :
                            Key50Type(all_violations[e]) = Key50Type(all_violations[k])

C5_Witness ==
    /\ Aggregated
    /\ \E k \in 1..Len(all_violations) :
          /\ ~Kept(k)
          /\ \A e \in 1..(k - 1) :
                Key100TypePage(all_violations[e]) # Key100TypePage(all_violations[k])

NamedRank(severity) ==
    CASE severity = "critical" -> 4
      [] severity = "high" -> 3
      [] severity = "medium" -> 2
      [] severity = "low" -> 1

NamedSeverity(v) == v.severity \in {"critical", "high", "medium", "low"}

\* C7: the returned list is sorted by non-increasing severity rank
\* (critical > high > medium > low) and, among equal severities, by
\* non-decreasing pageNumber.
C7_SortedBySeverityThenPage ==
    pc = "done" =>
        \A u, w \in 1..Len(ret.violations) :
            (u < w /\ NamedSeverity(ret.violations[u]) /\ NamedSeverity(ret.violations[w])) =>
                /\ NamedRank(ret.violations[u].severity) >= NamedRank(ret.violations[w].severity)
                /\ ret.violations[u].severity = ret.violations[w].severity =>
                       ret.violations[u].pageNumber <= ret.violations[w].pageNumber

C7_Witness ==
    /\ pc = "done"
    /\ Len(ret.violations) = 2
    /\ ret.violations[1].severity = ret.violations[2].severity
    /\ ret.violations[1].pageNumber < ret.violations[2].pageNumber
    /\ ret.violations[1].oid > ret.violations[2].oid

\* C8: generate_ai_solution is called only once aggregation has produced the
\* violation set, only for violations of that set, and once for each.
C8_SolutionsOnlyForSurvivorsAfterAggregation ==
    /\ solution_calls # <<>> => pc = "done"
    /\ \A c \in 1..Len(solution_calls) :
          \E u \in 1..Len(unique_violations) : unique_violations[u].oid = solution_calls[c]
    /\ \A c, d \in 1..Len(solution_calls) : c # d => solution_calls[c] # solution_calls[d]

\* C9: a violation whose violationText is shorter than 10 characters never
\* enters all_violations and never appears in the returned list.
C9_ShortTextDiscarded ==
    /\ \A k \in 1..Len(all_violations) : Len(all_violations[k].violationText) >= 10
    /\ \A u \in 1..Len(ret.violations) : Len(ret.violations[u].violationText) >= 10

\* C10: only an empty text ends a run without analysing any unit; for a
\* non-empty text the run does not raise and ends having passed every unit
\* of chunk_text to analyze_chunk, with a violation list and a summary.
C10_OnlyEmptyTextAbandons ==
    /\ pc # "raised"
    /\ (pc = "done" /\ text # <<>>) =>
          /\ analysed = [k \in 1..Len(chunks) |-> k]
          /\ DOMAIN ret.summary # {}

\* the strings generate_ai_solution returns in place of a solution
Placeholders ==
    {NotAvailableText, "OpenAI billing issue", "OpenAI quota exceeded",
     "Error generating solution"}

\* generate_ai_solution has returned for violation k
SolutionDone(k) == k < j \/ pc \in {"sort", "done"}

\* no request made for violation k was answered with a solution
AllProvidersFailed(k) ==
    \A r \in 1..Len(solution_requests) :
        solution_requests[r].violation = all_violations[k].oid
        => solution_requests[r].outcome = "failed"

\* C11: when every provider fails for one violation, its aiSolution is a
\* placeholder string, the run goes on, and by the end of the pass a remedy
\* has been requested once and recorded for every collected violation.
C11_FailedRemedyIsPlaceholderAndOthersGoOn ==
    /\ \A k \in 1..Len(all_violations) :
          (SolutionDone(k) /\ AllProvidersFailed(k))
          => all_violations[k].aiSolution \in Placeholders
    /\ pc = "solutions" =>
          ENABLED (SolutionMistral \/ SolutionMistralSkipped \/ DeduplicateViolations)
    /\ pc = "solution_openai" => ENABLED (SolutionNotAvailable \/ SolutionOpenAI)
    /\ pc \in {"sort", "done"} =>
          /\ solution_calls = [k \in 1..Len(all_violations) |-> all_violations[k].oid]
          /\ \A k \in 1..Len(all_violations) :
                all_violations[k].aiSolution \in Placeholders \cup {SolutionText}

C11_Witness ==
    /\ pc = "done"
    /\ Len(all_violations) = 2
    /\ \E r, q \in 1..Len(solution_requests) :
          /\ solution_requests[r] =
                [violation |-> 1, provider |-> "mistral", key |-> mistral_key,
                 outcome |-> "failed"]
          /\ solution_requests[q].violation = 1
          /\ solution_requests[q].provider = "openai"
          /\ solution_requests[q].outcome = "failed"
    /\ all_violations[1].aiSolution \in Placeholders
    /\ all_violations[2].aiSolution = SolutionText

\* the positions of the page records whose text contains t
RecordsContaining(t, pages) == {p \in 1..Len(pages) : Contains(pages[p].text, t)}

\* C12: find_page_number returns the page number of the first record, in
\* list order, whose text contains the violation text verbatim; if there is
\* none, of the first record containing its first 50 characters; if there is
\* none either, 1.
C12_FirstExactThenFirstPrefixThenOne ==
    call.fn = "find_page_number" =>
        LET pages == PagesOf(call.pages)
            exact == RecordsContaining(call.violation_text, pages)
            prefix == RecordsContaining(Slice(call.violation_text, 50), pages)
        IN  /\ exact # {} =>
                  /\ call.page = pages[MinOf(exact)].original_page
                  /\ \A p \in 1..(MinOf(exact) - 1) :
                        ~Contains(pages[p].text, call.violation_text)
            /\ (exact = {} /\ prefix # {}) =>
                  call.page = pages[MinOf(prefix)].original_page
            /\ (exact = {} /\ prefix = {}) => call.page = 1

\* the text is verbatim in the second record only, its first 50 characters
\* are in the first record too
C12_Witness ==
    /\ call.fn = "find_page_number"
    /\ call.violation_text = TextA
    /\ call.pages = <<1, 2>>
    /\ call.page = 3

\* the text chunk_text was called with
CallText == TextOfLines(call.lines)

\* C13: for a text of at most max_chars characters chunk_text returns one
\* unit, the text itself, unchanged.
C13_ShortTextIsOneUnchangedUnit ==
    (call.fn = "chunk_text" /\ Len(CallText) <= call.max_chars)
    => call.units = <<CallText>>

\* a text of exactly max_chars characters, in two lines
C13_Witness ==
    /\ call.fn = "chunk_text"
    /\ call.lines = <<"long", "medium">>
    /\ call.max_chars = MAX_CHARS_PER_CHUNK
    /\ Len(CallText) = MAX_CHARS_PER_CHUNK
    /\ Len(call.units) = 1

\* the lines of s that are not blank, as they are
RawNonBlankLines(s) == SelectSeq(Split(s, "\n"), LAMBDA l : Strip(l) # <<>>)

\* the lines of s that are not blank, without their leading and trailing
\* whitespace
StrippedNonBlankLines(s) ==
    LET ls == Split(s, "\n")
    IN  SelectSeq([k \in 1..Len(ls) |-> Strip(ls[k])], LAMBDA l : l # <<>>)

\* the non-blank lines of the units, unit after unit
RECURSIVE RawLinesOfUnits(_, _)
RawLinesOfUnits(units, k) ==
    IF k > Len(units) THEN <<>>
    ELSE RawNonBlankLines(units[k]) \o RawLinesOfUnits(units, k + 1)

RECURSIVE StrippedLinesOfUnits(_, _)
StrippedLinesOfUnits(units, k) ==
    IF k > Len(units) THEN <<>>
    ELSE StrippedNonBlankLines(units[k]) \o StrippedLinesOfUnits(units, k + 1)

\* C14 as stated: the units, in order, hold the non-blank lines of the input
\* exactly as they are and in the original order, each line in one unit.
C14_UnitsReproduceNonBlankLinesExactly ==
    call.fn = "chunk_text" =>
        RawLinesOfUnits(call.units, 1) = RawNonBlankLines(CallText)

\* C14 amended: the units, in order, hold the non-blank lines of the input
\* without their leading and trailing whitespace, in the original order,
\* each line in one unit.
C14_UnitsReproduceStrippedNonBlankLines ==
    call.fn = "chunk_text" =>
        StrippedLinesOfUnits(call.units, 1) = StrippedNonBlankLines(CallText)

\* a blank line is dropped, an indented line loses its indentation and is
\* merged into the unit before it
C14_Witness ==
    /\ call.fn = "chunk_text"
    /\ call.lines = <<"near_max", "blank", "indented">>
    /\ call.max_chars = MAX_CHARS_PER_CHUNK
    /\ Len(call.units) = 1
    /\ StrippedLinesOfUnits(call.units, 1) = <<Rep("a", 2990), Rep("c", 96)>>

\* C15: after the merge pass no unit but possibly the last one is shorter
\* than the minimum unit size of 500 characters.
C15_OnlyLastUnitMayBeSmall ==
    call.fn = "chunk_text" =>
        \A k \in 1..(Len(call.units) - 1) : Len(call.units[k]) >= 500

\* C18: every unit chunk_text returns for a text longer than max_chars has
\* at most max_chars characters, whatever the lines of the text, the merge
\* pass included.
C18_UnitsWithinMaxChars ==
    (call.fn = "chunk_text" /\ Len(CallText) > call.max_chars) =>
        \A k \in 1..Len(call.units) : Len(call.units[k]) <= call.max_chars

\* the dedup-and-sort step of 1606-1626
Aggregate(violations) == SortViolations(Deduplicate(violations))

\* C16: applying the dedup-and-sort step to the returned list, alone or
\* appended to the list it was computed from, gives the returned list again.
C16_AggregationIsIdempotent ==
    pc = "done" =>
        /\ Aggregate(ret.violations) = ret.violations
        /\ Aggregate(all_violations \o ret.violations) = ret.violations

\* two violations of equal severity and page were returned, one was dropped
\* as a duplicate or the order of collection was changed
C16_Witness ==
    /\ pc = "done"
    /\ Len(all_violations) = 2
    /\ \/ Len(ret.violations) = 1
       \/ /\ Len(ret.violations) = 2
          /\ SortKey(ret.violations[1]) = SortKey(ret.violations[2])
    /\ Aggregate(all_violations \o ret.violations) = ret.violations

\* a provider call that failed: an exception or error status, or a body
\* without a parsable violations list
FailedOutcomes == {"error", "malformed"}

\* C17: a malformed response has the same effect as an error or exception
\* of the provider at the same place in the chain: the provider's result is
\* the empty one, after Mistral the OpenAI step comes next, after OpenAI the
\* empty result is the unit's result.
C17_MalformedIsTreatedAsFailure ==
    /\ \A r \in MistralFailures :
          analyze_chunk_with_mistral(TRUE, "mistral-key", r) = EmptyResult
    /\ \A r \in OpenAIFailures : OpenAIResult(r) = EmptyResult
    /\ (attempts # <<>> /\ attempts[Len(attempts)].outcome \in FailedOutcomes) =>
          /\ result = EmptyResult
          /\ pc = IF attempts[Len(attempts)].provider = "mistral" THEN "openai"
                  ELSE "collect"

\* a malformed Mistral response fell through to OpenAI, whose answer is the
\* unit's result
C17_Witness ==
    /\ Returned
    /\ attempts = <<[provider |-> "mistral", outcome |-> "malformed"],
                    [provider |-> "openai", outcome |-> "violations"]>>
    /\ result.violations # <<>>

\* what a returned violation says, its identity and unit number left out
Content(v) == <<v.violationText, v.violationType, v.severity, v.pageNumber>>
Contents(violations) == [k \in 1..Len(violations) |-> Content(violations[k])]

\* the violations collected from unit c
UnitResults(c) == SelectSeq(all_violations, LAMBDA v : v.chunkNumber = c)

\* the units' results merged in the order p
RECURSIVE MergedInOrder(_, _)
MergedInOrder(p, k) ==
    IF k > Len(p) THEN <<>>
    ELSE UnitResults(p[k]) \o MergedInOrder(p, k + 1)

UnitOrders ==
    {p \in [1..Len(chunks) -> 1..Len(chunks)] :
        \A a, b \in 1..Len(chunks) : a # b => p[a] # p[b]}

\* C19: merging the units' results in any order gives the same
\* deduplicated, ordered violation list.
C19_UnitOrderDoesNotMatter ==
    (pc = "done" /\ analysed # <<>>) =>
        \A p \in UnitOrders :
            Contents(Aggregate(MergedInOrder(p, 1))) = Contents(ret.violations)

\* C20: a collected violation's violationText is a verbatim substring of the
\* text of the unit it was reported for.
C20_CollectedTextIsInItsUnit ==
    \A k \in 1..Len(all_violations) :
        Contains(chunks[all_violations[k].chunkNumber], all_violations[k].violationText)

\* C21: no two calls go to one remote provider without a
\* time.sleep(CHUNK_DELAY) between them.
C21_DelayBetweenCallsToOneProvider ==
    /\ calls_since_delay.mistral <= 1
    /\ calls_since_delay.openai <= 1

\* the lines of a unit
LinesOf(unit) ==
    LET lines == Split(unit, "\n")
    IN  {lines[k] : k \in 1..Len(lines)}

\* the pages of the PDF that got a marker: those that are not blank
MarkedPages == {n \in 1..Len(call.pages) : Strip(PdfPage(call.pages[n], n)) # <<>>}

\* C22: chunk_text never splits a page-marker line: every
\* '=== ORIGINAL PAGE n ===' line of the extracted text is a line of exactly
\* one unit, and no unit holds a fragment of a marker (a line with '=' in
\* it that is not a marker).
C22_MarkerLinesAreNeverSplit ==
    (pc = "returned" /\ call.fn = "chunk_text") =>
        LET lines == [u \in 1..Len(call.units) |-> LinesOf(call.units[u])]
        IN  /\ \A n \in MarkedPages :
                  Cardinality({u \in 1..Len(call.units) :
                                  PageMarker(n) \in lines[u]}) = 1
            /\ \A u \in 1..Len(call.units) :
                  \A line \in lines[u] :
                      Contains(line, <<"=">>) =>
                          \E n \in MarkedPages : line = PageMarker(n)

\* two pages of 2960 characters: the marker of the second page would pass
\* max_chars in the first unit and opens the second unit
C22_Witness ==
    /\ pc = "returned"
    /\ call.fn = "chunk_text"
    /\ call.pages = <<"near_max", "near_max">>
    /\ Len(call.units) = 2
    /\ SubSeq(call.units[2], 1, Len(PageMarker(2))) = PageMarker(2)
    /\ ~Contains(call.units[1], <<"=", "=", "=", " ", "O", "R", "I", "G", "I",
                                  "N", "A", "L", " ", "P", "A", "G", "E", " ", "2">>)

\* C23: two returned violations of equal severity rank and equal pageNumber
\* are in the order in which they were collected.
C23_OrderingIsStable ==
    pc = "done" =>
        \A u, w \in 1..Len(ret.violations) :
            (u < w /\ SortKey(ret.violations[u]) = SortKey(ret.violations[w]))
            => ret.violations[u].oid < ret.violations[w].oid

\* two violations of different severity names but equal rank and page
C23_Witness ==
    /\ pc = "done"
    /\ Len(ret.violations) = 2
    /\ ret.violations[1].severity # ret.violations[2].severity
    /\ SortKey(ret.violations[1]) = SortKey(ret.violations[2])
    /\ ret.violations[1].oid < ret.violations[2].oid

\* the collected violation a returned one stems from
CollectedAs(v) ==
    all_violations[CHOOSE k \in 1..Len(all_violations) : all_violations[k].oid = v.oid]

\* C24: every returned violation has a pageNumber and an aiSolution, and a
\* pageNumber or aiSolution once set on a violation stays as it is in every
\* later step, deduplication and ordering included.
C24_PageAndSolutionAttachedAndKept ==
    /\ [](pc = "done" =>
            \A u \in 1..Len(ret.violations) :
                /\ ret.violations[u].pageNumber \in Nat
                /\ ret.violations[u].aiSolution # Absent)
    /\ []((pc \in {"sort", "done"}) =>
            \A u \in 1..Len(unique_violations) :
                unique_violations[u] = CollectedAs(unique_violations[u]))
    /\ [][\A k \in 1..Len(all_violations) :
              /\ Len(all_violations') >= k
              /\ all_violations'[k].pageNumber = all_violations[k].pageNumber
              /\ all_violations[k].aiSolution # Absent =>
                    all_violations'[k].aiSolution = all_violations[k].aiSolution]_vars

\* a returned list of two violations, one with a solution and one with a
\* placeholder
C24_Witness ==
    /\ pc = "done"
    /\ Len(ret.violations) = 2
    /\ ret.violations[1].aiSolution = SolutionText
    /\ ret.violations[2].aiSolution \in Placeholders
    /\ ret.violations[1].pageNumber # ret.violations[2].pageNumber

\* C25: every request of generate_ai_solution is made with the key of the
\* provider it goes to: the OpenAI client is created with the OpenAI key.
C25_RequestUsesKeyOfItsProvider ==
    \A r \in 1..Len(solution_requests) :
        /\ solution_requests[r].provider = "mistral" =>
              solution_requests[r].key = mistral_key
        /\ solution_requests[r].provider = "openai" =>
              solution_requests[r].key = openai_key

\* C26: in every reachable session state, analysis_complete = True
\* implies that violations_data and current_filename are set and are not
\* None, under any sequence of script runs (analysis of an upload, New
\* Analysis, Logout, login).
C26_CompleteImpliesResultsStored ==
    session.analysis_complete =>
        /\ {"analysis_complete", "violations_data", "current_filename"}
               \subseteq session.keys
        /\ session.violations_data # None
        /\ session.current_filename # None

\* an analysis was stored, reset by New Analysis, and another one stored
C26_Witness ==
    /\ pc = "session"
    /\ call.fn = "main"
    /\ call.request.button = "start_analysis"
    /\ "store" \in call.did
    /\ session.analysis_complete
    /\ session.current_filename = "script.docx"
    /\ session.violations_data = ViolationsData("script.docx")

\* C27: authenticated becomes True only through a login whose email,
\* lower-cased and trimmed, ends with '@hoichoi.tv' and whose password has
\* at least 6 characters; a run that starts while it is not True does no
\* extraction, no analysis and no write of analysis results, and while it is
\* not True the session holds no analysis results; after Logout it is
\* False again.
C27_AuthenticatedOnlyByValidLogin ==
    /\ [][(session'.authenticated /\ ~session.authenticated) =>
             /\ call'.request.button = "login"
             /\ LET email == Strip(Lower(call'.request.email))
                IN  /\ Len(email) >= 11
                    /\ SubSeq(email, Len(email) - 10, Len(email)) =
                          <<"@", "h", "o", "i", "c", "h", "o", "i", ".", "t", "v">>
             /\ Len(call'.request.password) >= 6
             /\ session'.user_email = call'.request.email]_vars
    /\ [][(~session.authenticated /\ call' # call) =>
             /\ call'.did = {}
             /\ session'.violations_data = None
             /\ session'.current_filename = None
             /\ ~session'.analysis_complete]_vars
    /\ [](~session.authenticated =>
             /\ session.violations_data = None
             /\ session.current_filename = None
             /\ ~session.analysis_complete)
    /\ []((call.fn = "main" /\ call.request.button = "logout") =>
             /\ "authenticated" \in session.keys
             /\ ~session.authenticated)

\* a login with an address in capitals followed by a line break and a
\* password of 6 characters
C27_Witness ==
    /\ pc = "session"
    /\ call.fn = "main"
    /\ call.request.button = "login"
    /\ call.request.email # Strip(Lower(call.request.email))
    /\ Len(call.request.password) = 6
    /\ session.authenticated
    /\ session.user_email = call.request.email

\* the unit analyze_chunk_with_keywords was called with
CallChunk == ChunkOfSentences(call.sentences)

\* the violations of one category among those returned
OfType(violations, type) == SelectSeq(violations, LAMBDA v : v.violationType = type)

\* the keyword of the category that is matched: the first one, in the order
\* of the list, that occurs in the lower-cased unit
MatchedKeyword(cat, chunk) ==
    cat.keywords[MinOf({k \in DOMAIN cat.keywords :
                           Contains(Lower(chunk), cat.keywords[k])})]

\* at most one violation per category, exactly one for each category a
\* keyword of which occurs in the unit, and its text is, trimmed or as it
\* is, the first '.'-delimited sentence holding the matched keyword
KeywordViolationsAreSentences(trimmed) ==
    call.fn = "analyze_chunk_with_keywords" =>
        /\ Len(call.violations) <= Len(violation_keywords)
        /\ \A c \in DOMAIN violation_keywords :
              LET cat == violation_keywords[c]
                  found == OfType(call.violations, cat.type)
                  occurs == \E k \in DOMAIN cat.keywords :
                               Contains(Lower(CallChunk), cat.keywords[k])
                  sentences == Split(CallChunk, ".")
              IN  /\ Len(found) <= 1
                  /\ occurs <=> Len(found) = 1
                  /\ \A v \in 1..Len(found) :
                        \E n \in DOMAIN sentences :
                            /\ found[v].violationText =
                                  (IF trimmed THEN Strip(sentences[n])
                                   ELSE sentences[n])
                            /\ Contains(Lower(sentences[n]),
                                        MatchedKeyword(cat, CallChunk))
                            /\ Contains(Lower(found[v].violationText),
                                        MatchedKeyword(cat, CallChunk))
                            /\ \A m \in 1..(n - 1) :
                                  ~Contains(Lower(sentences[m]),
                                            MatchedKeyword(cat, CallChunk))

\* C28 as stated: analyze_chunk_with_keywords returns at most one violation
\* per keyword category, exactly one for each category that has a keyword
\* occurring in the unit, and each violationText is a '.'-delimited sentence
\* of the unit that contains the matched keyword case-insensitively.
C28_ViolationTextIsASentenceOfTheUnit == KeywordViolationsAreSentences(FALSE)

\* C28 amended: at most one violation per keyword category, exactly one for
\* each category that has a keyword occurring in the unit, and each
\* violationText is a '.'-delimited sentence of the unit with the white
\* space at its ends removed, the first one that contains the matched
\* keyword case-insensitively.
C28_ViolationTextIsATrimmedSentenceOfTheUnit == KeywordViolationsAreSentences(TRUE)

\* two keywords of one category occur in the first sentence, which starts
\* with a space: one violation for the category, its text trimmed
C28_Witness ==
    /\ call.fn = "analyze_chunk_with_keywords"
    /\ call.sentences = <<5, 2>>
    /\ Len(call.violations) = 2
    /\ call.violations[1].violationType = "Personal_Information_Exposure"
    /\ call.violations[1].violationText = Strip(SentencePool[5])
    /\ call.violations[1].violationText # SentencePool[5]
    /\ call.violations[2].violationType = "Unauthorized_Branding"

\* the items of the violations list the provider answered with
CallItems == Items(call.items)

HasRequiredKeys(item) ==
    item.is_dict /\ item.violationText # AbsentText /\ item.violationType # Absent

C30_UnknownSeverityRankedAsLow ==
    pc = "done" =>
        \A u, w \in 1..Len(ret.violations) :
            (u < w /\ ~NamedSeverity(ret.violations[u]))
            => ret.violations[w].severity \notin {"critical", "high", "medium"}

\* a violation of an unnamed severity was collected first and is returned
\* after one of severity medium
C30_Witness ==
    /\ pc = "done"
    /\ Len(ret.violations) = 2
    /\ ret.violations[1].severity = "medium"
    /\ ~NamedSeverity(ret.violations[2])
    /\ ret.violations[2].oid < ret.violations[1].oid

====
